---- MODULE Spec2Model ----
(***************************************************************************)
(* The ledger store of tammany (src/src/block.rs): Block, its hash, the    *)
(* chain validator, the Handler that owns the local chain, and the four    *)
(* variant message protocol with its JSON encoding; and the event loop of  *)
(* a peer (src/src/p2p.rs, run), which feeds the payloads of the Floodsub  *)
(* topic to the Handler and publishes the typed lines and the replies.     *)
(*                                                                         *)
(* Machine integers are kept as their big-endian bytes (u32: 4 bytes,      *)
(* u128: 16 bytes), so the full range of each field exists in the model    *)
(* and to_be_bytes is the representation itself.  Text (String, &str) is a *)
(* sequence of characters, one string per code point.                      *)
(***************************************************************************)
EXTENDS Integers, Sequences, FiniteSets, TLC

VARIABLES
    blockchain,   \* Handler.blockchain : Vec<Block>
    genesis,      \* Handler.genesis : Block
    pc,           \* "idle" | "done" (a call has returned) | "panicked"
    op,           \* the operation of the last call
    arg,          \* its input
    ret,          \* its return value (Option<T> is <<>> or <<v>>)
    pre,          \* Handler.blockchain when the call was made
    handler,      \* p2p::run: the Handler of each running peer
    stdin,        \* the lines typed at each peer and not yet read
    inbox,        \* the Floodsub messages on their way to each peer (their
                  \* places in published)
    loop,         \* where each peer is in the body of its event loop
    published     \* every floodsub.publish call so far, in order

\* the store and its caller
caller == <<blockchain, genesis, pc, op, arg, ret, pre>>

\* the peers and the transport
network == <<handler, stdin, inbox, loop, published>>

vars == <<blockchain, genesis, pc, op, arg, ret, pre,
          handler, stdin, inbox, loop, published>>

(***************************************************************************)
(* Bounds of the model.                                                    *)
(***************************************************************************)
\* longest candidate chain offered to the store
MaxChainLen == 3

(***************************************************************************)
(* Program constants.                                                      *)
(***************************************************************************)
HASH_LEN == 32
U32_LEN == 4
U128_LEN == 16
GENESIS_TIMESTAMP == 0
GENESIS_DATA == <<"g", "e", "n", "e", "s", "i", "s", " ", "d", "a", "t", "a">>

(***************************************************************************)
(* Bytes and fixed-width unsigned integers.                                *)
(***************************************************************************)
Byte == 0..255

Zeros(n) == [i \in 1..n |-> 0]

Ones(n) == [i \in 1..n |-> 255]

\* the w-byte big-endian integer of value n (n < 2^31: only the low four
\* bytes can be other than 0)
BE(n, w) == [i \in 1..w |-> IF w - i > 3 THEN 0 ELSE (n \div (256 ^ (w - i))) % 256]

U32(n) == BE(n, U32_LEN)

U128(n) == BE(n, U128_LEN)

\* x + 1 on a fixed-width unsigned integer; the carry out of the top byte is
\* dropped (u32::MAX + 1 wraps to 0 in a release build)
RECURSIVE WrappingInc(_)
WrappingInc(x) ==
    IF Len(x) = 0 THEN <<>>
    ELSE IF x[Len(x)] < 255 THEN [x EXCEPT ![Len(x)] = x[Len(x)] + 1]
    ELSE Append(WrappingInc(SubSeq(x, 1, Len(x) - 1)), 0)

(***************************************************************************)
(* Strings.  A character is a string naming one code point; Utf8Of gives   *)
(* its UTF-8 bytes (String is UTF-8 in memory).                            *)
(***************************************************************************)
\* the printable ASCII characters, U+0020 to U+007E in order
Printable ==
    <<" ", "!", "\"", "#", "$", "%", "&", "'", "(", ")", "*", "+", ",", "-", ".", "/",
      "0", "1", "2", "3", "4", "5", "6", "7", "8", "9", ":", ";", "<", "=", ">", "?",
      "@", "A", "B", "C", "D", "E", "F", "G", "H", "I", "J", "K", "L", "M", "N", "O",
      "P", "Q", "R", "S", "T", "U", "V", "W", "X", "Y", "Z", "[", "\\", "]", "^", "_",
      "U+0060", "a", "b", "c", "d", "e", "f", "g", "h", "i", "j", "k", "l", "m", "n", "o",
      "p", "q", "r", "s", "t", "u", "v", "w", "x", "y", "z", "{", "|", "}", "~">>

Utf8Of ==
    ("g" :> <<103>>) @@ ("e" :> <<101>>) @@ ("n" :> <<110>>) @@ ("s" :> <<115>>) @@
    ("i" :> <<105>>) @@ (" " :> <<32>>) @@ ("d" :> <<100>>) @@ ("a" :> <<97>>) @@
    ("t" :> <<116>>) @@ ("x" :> <<120>>) @@ ("y" :> <<121>>) @@
    ("\"" :> <<34>>) @@ ("\\" :> <<92>>) @@ ("/" :> <<47>>) @@
    ("U+000A" :> <<10>>) @@ ("U+0001" :> <<1>>) @@
    ("U+00E9" :> <<195, 169>>) @@ ("U+1F600" :> <<240, 159, 152, 128>>) @@
    [c \in {Printable[k] : k \in 1..Len(Printable)} |->
        <<31 + CHOOSE k \in 1..Len(Printable) : Printable[k] = c>>]

\* the UTF-8 bytes of the characters s[lo..hi], by halves
RECURSIVE Utf8(_, _, _)
Utf8(s, lo, hi) ==
    IF lo > hi THEN <<>>
    ELSE IF lo = hi THEN Utf8Of[s[lo]]
    ELSE Utf8(s, lo, (lo + hi) \div 2) \o Utf8(s, (lo + hi) \div 2 + 1, hi)

as_bytes(s) == Utf8(s, 1, Len(s))

\* the character each UTF-8 byte run stands for
CharOf ==
    [run \in {Utf8Of[c] : c \in DOMAIN Utf8Of} |->
        CHOOSE c \in DOMAIN Utf8Of : Utf8Of[c] = run]

\* String::from_utf8_lossy: the bytes are cut before every byte that is not
\* a continuation byte (10xxxxxx); a run that is no character becomes U+FFFD
from_utf8_lossy(v) ==
    LET starts == SelectSeq([k \in 1..Len(v) |-> k],
                            LAMBDA i : i = 1 \/ v[i] < 128 \/ v[i] >= 192)
        run(k) == SubSeq(v, starts[k],
                         IF k < Len(starts) THEN starts[k + 1] - 1 ELSE Len(v))
    IN  [k \in 1..Len(starts) |->
            IF run(k) \in DOMAIN CharOf THEN CharOf[run(k)] ELSE "U+FFFD"]

(***************************************************************************)
(* SHA-256 (crate sha2) is outside the repository.  It is modelled by a    *)
(* 32-byte digest computed by absorbing the message byte by byte; all the  *)
(* model relies on is that the digest is a function of the message bytes.  *)
(***************************************************************************)
\* 31^k modulo 32749
RECURSIVE Pow31(_)
Pow31(k) ==
    IF k = 0 THEN 1
    ELSE LET h == Pow31(k \div 2)
         IN  (((h * h) % 32749) * (IF k % 2 = 1 THEN 31 ELSE 1)) % 32749

\* the polynomial sum of the bytes m[lo..hi], by halves
RECURSIVE Absorb(_, _, _)
Absorb(m, lo, hi) ==
    IF lo = hi THEN m[lo] + 1
    ELSE (Absorb(m, lo, (lo + hi) \div 2) * Pow31(hi - (lo + hi) \div 2)
          + Absorb(m, (lo + hi) \div 2 + 1, hi)) % 32749

\* the digest d as the last two bytes of the output
Digest(d) ==
    [i \in 1..HASH_LEN |->
        IF i = HASH_LEN THEN d % 256
        ELSE IF i = HASH_LEN - 1 THEN d \div 256
        ELSE 0]

Sha256(m) == Digest(IF Len(m) = 0 THEN 0 ELSE Absorb(m, 1, Len(m)))

\* Output::<Sha256>::default(): the all-zero array
DefaultOutput == Zeros(HASH_LEN)

(***************************************************************************)
(* Block                                                                   *)
(***************************************************************************)
calculate_hash(block) ==
    Sha256(block.prev_hash \o block.index \o block.timestamp \o as_bytes(block.data))

Block_new(prev_hash, index, timestamp, data) ==
    LET block == [prev_hash |-> prev_hash, index |-> index,
                  timestamp |-> timestamp, data |-> data, hash |-> DefaultOutput]
    IN  [block EXCEPT !.hash = calculate_hash(block)]

\* now: SystemTime::now() since UNIX_EPOCH, as_millis()
generate_block(data, prev_block, now) ==
    Block_new(prev_block.hash, WrappingInc(prev_block.index), now, data)

\* validate_block that does not compare the indices
validate_block_unindexed(self, prev_block) ==
    /\ self.prev_hash = prev_block.hash
    /\ self.hash = calculate_hash(self)

\* validate_block that trusts the hash a block carries
validate_block_unhashed(self, prev_block) ==
    /\ self.index = WrappingInc(prev_block.index)
    /\ self.prev_hash = prev_block.hash

validate_block(self, prev_block) ==
    /\ self.index = WrappingInc(prev_block.index)
    /\ self.prev_hash = prev_block.hash
    /\ self.hash = calculate_hash(self)

(***************************************************************************)
(* Handler.  An operation yields an outcome: whether it panicked, what it  *)
(* returned and the blockchain it leaves.                                  *)
(***************************************************************************)
None == <<>>

Some(v) == <<v>>

Returned(r, chain) == [panic |-> FALSE, ret |-> r, blockchain |-> chain]

Panicked(chain) == [panic |-> TRUE, ret |-> None, blockchain |-> chain]

Handler_new ==
    LET g == Block_new(DefaultOutput, U32(0), U128(GENESIS_TIMESTAMP), GENESIS_DATA)
    IN  [blockchain |-> <<g>>, genesis |-> g]

\* the for loop of validate_chain from position i on (prev is chain[i - 1])
RECURSIVE validate_links(_, _)
validate_links(chain, i) ==
    IF i > Len(chain) THEN TRUE
    ELSE IF ~validate_block(chain[i], chain[i - 1]) THEN FALSE
    ELSE validate_links(chain, i + 1)

\* validate_chain that walks the pairs without looking at the first block
validate_chain_any_root(g, chain) ==
    IF Len(chain) = 0 THEN [panic |-> TRUE, val |-> FALSE]
    ELSE [panic |-> FALSE, val |-> validate_links(chain, 2)]

\* chain.get(0).expect("chain empty") panics on the empty chain
validate_chain(g, chain) ==
    IF Len(chain) = 0 THEN [panic |-> TRUE, val |-> FALSE]
    ELSE IF chain[1] # g THEN [panic |-> FALSE, val |-> FALSE]
    ELSE [panic |-> FALSE, val |-> validate_links(chain, 2)]

\* replace_chain that takes a longer valid chain only when it extends the
\* local chain
replace_chain_extending(self, new_chain) ==
    LET v == validate_chain(self.genesis, new_chain)
    IN  IF v.panic THEN Panicked(self.blockchain)
        ELSE IF /\ v.val
                /\ Len(new_chain) > Len(self.blockchain)
                /\ SubSeq(new_chain, 1, Len(self.blockchain)) = self.blockchain
             THEN Returned(TRUE, new_chain)
             ELSE Returned(FALSE, self.blockchain)

\* replace_chain that takes every valid chain, whatever its length
replace_chain_any_length(self, new_chain) ==
    LET v == validate_chain(self.genesis, new_chain)
    IN  IF v.panic THEN Panicked(self.blockchain)
        ELSE IF v.val
             THEN Returned(TRUE, new_chain)
             ELSE Returned(FALSE, self.blockchain)

\* replace_chain that takes a valid chain of equal length
\* replace_chain with the lengths compared the other way round
replace_chain_if_shorter(self, new_chain) ==
    LET v == validate_chain(self.genesis, new_chain)
    IN  IF v.panic THEN Panicked(self.blockchain)
        ELSE IF v.val /\ Len(new_chain) < Len(self.blockchain)
             THEN Returned(TRUE, new_chain)
             ELSE Returned(FALSE, self.blockchain)

replace_chain_on_tie(self, new_chain) ==
    LET v == validate_chain(self.genesis, new_chain)
    IN  IF v.panic THEN Panicked(self.blockchain)
        ELSE IF v.val /\ Len(new_chain) >= Len(self.blockchain)
             THEN Returned(TRUE, new_chain)
             ELSE Returned(FALSE, self.blockchain)

replace_chain(self, new_chain) ==
    LET v == validate_chain(self.genesis, new_chain)
    IN  IF v.panic THEN Panicked(self.blockchain)
        ELSE IF v.val /\ Len(new_chain) > Len(self.blockchain)
             THEN Returned(TRUE, new_chain)
             ELSE Returned(FALSE, self.blockchain)

\* self.blockchain.last().expect("chain empty")
latest_block(self) ==
    IF Len(self.blockchain) = 0 THEN [panic |-> TRUE, val |-> None]
    ELSE [panic |-> FALSE, val |-> self.blockchain[Len(self.blockchain)]]

\* push_block that validates against the first block instead of the last
push_block_on_first(self, new_block) ==
    IF Len(self.blockchain) = 0 THEN Panicked(self.blockchain)
    ELSE IF validate_block(new_block, self.blockchain[1])
         THEN Returned(TRUE, Append(self.blockchain, new_block))
         ELSE Returned(FALSE, self.blockchain)

push_block(self, new_block) ==
    LET l == latest_block(self)
    IN  IF l.panic THEN Panicked(self.blockchain)
        ELSE IF validate_block(new_block, l.val)
             THEN Returned(TRUE, Append(self.blockchain, new_block))
             ELSE Returned(FALSE, self.blockchain)

(***************************************************************************)
(* ClientMessage                                                           *)
(***************************************************************************)
QueryLatest == [type |-> "QueryLatest"]

QueryAll == [type |-> "QueryAll"]

ResponseLatest(block) == [type |-> "ResponseLatest", block |-> block]

ResponseAll(chain) == [type |-> "ResponseAll", chain |-> chain]

\* process that answers QueryLatest with the first block
process_first_block(self, msg) ==
    IF msg.type = "QueryLatest" THEN
        IF latest_block(self).panic THEN Panicked(self.blockchain)
        ELSE Returned(Some(ResponseLatest(self.blockchain[1])), self.blockchain)
    ELSE IF msg.type = "QueryAll" THEN
        Returned(Some(ResponseAll(self.blockchain)), self.blockchain)
    ELSE IF msg.type = "ResponseLatest" THEN
        IF push_block(self, msg.block).panic THEN push_block(self, msg.block)
        ELSE Returned(None, push_block(self, msg.block).blockchain)
    ELSE
        IF replace_chain(self, msg.chain).panic THEN replace_chain(self, msg.chain)
        ELSE Returned(None, replace_chain(self, msg.chain).blockchain)

\* process that answers an accepted update with the chain it led to
process_acknowledging(self, msg) ==
    IF msg.type = "QueryLatest" THEN
        IF latest_block(self).panic THEN Panicked(self.blockchain)
        ELSE Returned(Some(ResponseLatest(latest_block(self).val)), self.blockchain)
    ELSE IF msg.type = "QueryAll" THEN
        Returned(Some(ResponseAll(self.blockchain)), self.blockchain)
    ELSE IF msg.type = "ResponseLatest" THEN
        IF push_block(self, msg.block).panic THEN push_block(self, msg.block)
        ELSE IF push_block(self, msg.block).ret
             THEN Returned(Some(ResponseAll(push_block(self, msg.block).blockchain)),
                           push_block(self, msg.block).blockchain)
             ELSE Returned(None, self.blockchain)
    ELSE
        IF replace_chain(self, msg.chain).panic THEN replace_chain(self, msg.chain)
        ELSE Returned(None, replace_chain(self, msg.chain).blockchain)

\* process that answers a chain it is sent with the chain it then holds
process_answering_chains(self, msg) ==
    IF msg.type = "QueryLatest" THEN
        IF latest_block(self).panic THEN Panicked(self.blockchain)
        ELSE Returned(Some(ResponseLatest(latest_block(self).val)), self.blockchain)
    ELSE IF msg.type = "QueryAll" THEN
        Returned(Some(ResponseAll(self.blockchain)), self.blockchain)
    ELSE IF msg.type = "ResponseLatest" THEN
        IF push_block(self, msg.block).panic THEN push_block(self, msg.block)
        ELSE Returned(None, push_block(self, msg.block).blockchain)
    ELSE
        IF replace_chain(self, msg.chain).panic THEN replace_chain(self, msg.chain)
        ELSE Returned(Some(ResponseAll(replace_chain(self, msg.chain).blockchain)),
                      replace_chain(self, msg.chain).blockchain)

process(self, msg) ==
    IF msg.type = "QueryLatest" THEN
        LET l == latest_block(self)
        IN  IF l.panic THEN Panicked(self.blockchain)
            ELSE Returned(Some(ResponseLatest(l.val)), self.blockchain)
    ELSE IF msg.type = "QueryAll" THEN
        Returned(Some(ResponseAll(self.blockchain)), self.blockchain)
    ELSE IF msg.type = "ResponseLatest" THEN
        LET o == push_block(self, msg.block)
        IN  IF o.panic THEN o ELSE Returned(None, o.blockchain)
    ELSE
        LET o == replace_chain(self, msg.chain)
        IN  IF o.panic THEN o ELSE Returned(None, o.blockchain)

(***************************************************************************)
(* JSON text (crate serde_json, derived Serialize/Deserialize).  A text is *)
(* a sequence of characters.  to_string writes the compact form; from_str  *)
(* reads the fields of a Block in their declared order, with optional      *)
(* whitespace between tokens, and rejects everything else (serde_json also *)
(* takes reordered fields; no such text is offered to the model).          *)
(***************************************************************************)
DigitChar == <<"0", "1", "2", "3", "4", "5", "6", "7", "8", "9">>

DigitVal ==
    ("0" :> 0) @@ ("1" :> 1) @@ ("2" :> 2) @@ ("3" :> 3) @@ ("4" :> 4) @@
    ("5" :> 5) @@ ("6" :> 6) @@ ("7" :> 7) @@ ("8" :> 8) @@ ("9" :> 9)

Whitespace == {" ", "U+000A"}

ControlChars == {"U+000A", "U+0001"}

\* the names the derive gives the variants and the fields
N_QueryLatest == <<"Q", "u", "e", "r", "y", "L", "a", "t", "e", "s", "t">>

N_QueryAll == <<"Q", "u", "e", "r", "y", "A", "l", "l">>

N_ResponseLatest ==
    <<"R", "e", "s", "p", "o", "n", "s", "e", "L", "a", "t", "e", "s", "t">>

N_ResponseAll == <<"R", "e", "s", "p", "o", "n", "s", "e", "A", "l", "l">>

N_prev_hash == <<"p", "r", "e", "v", "_", "h", "a", "s", "h">>

N_index == <<"i", "n", "d", "e", "x">>

N_timestamp == <<"t", "i", "m", "e", "s", "t", "a", "m", "p">>

N_data == <<"d", "a", "t", "a">>

N_hash == <<"h", "a", "s", "h">>

N_null == <<"n", "u", "l", "l">>

(* ------------------------------ writing ------------------------------ *)

\* the bytes x[lo..hi] divided by d with rem carried in from the bytes above
\* them: quotient bytes and remainder, by halves
RECURSIVE DivMod(_, _, _, _, _)
DivModJoin(l, h) == [q |-> l.q \o h.q, r |-> h.r]

DivModLow(x, lo, hi, d, l) ==
    DivModJoin(l, DivMod(x, (lo + hi) \div 2 + 1, hi, d, l.r))

DivMod(x, lo, hi, d, rem) ==
    IF lo = hi THEN [q |-> <<(rem * 256 + x[lo]) \div d>>, r |-> (rem * 256 + x[lo]) % d]
    ELSE DivModLow(x, lo, hi, d, DivMod(x, lo, (lo + hi) \div 2, d, rem))

\* n < 10^6 as six digits
Digits6(n) == [k \in 1..6 |-> DigitChar[((n \div (10 ^ (6 - k))) % 10) + 1]]

\* n < 10^6 as digits: all six when digits stand before it
Digits(n, padded) ==
    IF padded THEN Digits6(n)
    ELSE SubSeq(Digits6(n), 7 - Cardinality({k \in 1..6 : k = 1 \/ n >= 10 ^ (k - 1)}), 6)

\* the decimal digits of x, six at a time from the bottom
RECURSIVE Decimal(_)
DecimalOf(d) ==
    IF d.q = Zeros(Len(d.q)) THEN Digits(d.r, FALSE)
    ELSE Decimal(d.q) \o Digits(d.r, TRUE)

Decimal(x) == DecimalOf(DivMod(x, 1, Len(x), 1000000, 0))

\* an unsigned integer as decimal digits
ser_uint(x) == Decimal(x)

\* the texts parts[lo..hi] with sep between them, by halves
RECURSIVE Join(_, _, _, _)
Join(parts, sep, lo, hi) ==
    IF lo = hi THEN parts[lo]
    ELSE Join(parts, sep, lo, (lo + hi) \div 2) \o sep
         \o Join(parts, sep, (lo + hi) \div 2 + 1, hi)

\* a sequence as a JSON array
ser_seq(parts) ==
    IF Len(parts) = 0 THEN <<"[", "]">>
    ELSE <<"[">> \o Join(parts, <<",">>, 1, Len(parts)) \o <<"]">>

\* [u8; 32] is written as an array of numbers
ser_bytes(h) == ser_seq([k \in 1..Len(h) |-> ser_uint(<<h[k]>>)])

\* Escaped that writes a backslash as it is
Escaped_raw_backslash(c) ==
    CASE c = "\"" -> <<"\\", "\"">>
      [] c = "U+000A" -> <<"\\", "n">>
      [] c = "U+0001" -> <<"\\", "u", "0", "0", "0", "1">>
      [] OTHER -> <<c>>

Escaped(c) ==
    CASE c = "\"" -> <<"\\", "\"">>
      [] c = "\\" -> <<"\\", "\\">>
      [] c = "U+000A" -> <<"\\", "n">>
      [] c = "U+0001" -> <<"\\", "u", "0", "0", "0", "1">>
      [] OTHER -> <<c>>

ser_str(s) ==
    IF Len(s) = 0 THEN <<"\"", "\"">>
    ELSE <<"\"">> \o Join([k \in 1..Len(s) |-> Escaped(s[k])], <<>>, 1, Len(s)) \o <<"\"">>

ser_field(name, value) == ser_str(name) \o <<":">> \o value

\* a struct is an object of its fields in their declared order
ser_block(b) ==
    <<"{">> \o Join(<<ser_field(N_prev_hash, ser_bytes(b.prev_hash)),
                      ser_field(N_index, ser_uint(b.index)),
                      ser_field(N_timestamp, ser_uint(b.timestamp)),
                      ser_field(N_data, ser_str(b.data)),
                      ser_field(N_hash, ser_bytes(b.hash))>>, <<",">>, 1, 5)
    \o <<"}">>

ser_vec(chain) == ser_seq([k \in 1..Len(chain) |-> ser_block(chain[k])])

\* serde_json::to_string(&ClientMessage): a unit variant is its name as a
\* string, a newtype variant an object with the name as its only key
to_string(msg) ==
    CASE msg.type = "QueryLatest" -> ser_str(N_QueryLatest)
      [] msg.type = "QueryAll" -> ser_str(N_QueryAll)
      [] msg.type = "ResponseLatest" ->
            <<"{">> \o ser_field(N_ResponseLatest, ser_block(msg.block)) \o <<"}">>
      [] msg.type = "ResponseAll" ->
            <<"{">> \o ser_field(N_ResponseAll, ser_vec(msg.chain)) \o <<"}">>

(* ------------------------------ reading ------------------------------ *)
\* A parser yields [ok, val, next]: next is the position after what it read.
\* Each step of a parser is an operator that takes the result of the step
\* before it.
Fail == [ok |-> FALSE, val |-> None, next |-> 0]

Got(v, n) == [ok |-> TRUE, val |-> v, next |-> n]

At(s, i) == IF i <= Len(s) THEN s[i] ELSE "EOF"

\* the first position from i on that holds no whitespace
SkipWs(s, i) ==
    CHOOSE j \in i..(Len(s) + 1) :
        /\ At(s, j) \notin Whitespace
        /\ \A k \in i..(j - 1) : s[k] \in Whitespace

ExpectAt(s, j, c) == IF At(s, j) = c THEN Got(<<>>, j + 1) ELSE Fail

\* the character c as the next token
Expect(s, i, c) == ExpectAt(s, SkipWs(s, i), c)

\* the character c after the part r, keeping the value of r
CloseWith(s, r, c) ==
    IF r.ok /\ Expect(s, r.next, c).ok THEN Got(r.val, Expect(s, r.next, c).next)
    ELSE Fail

\* the bytes x[lo..hi] (lowest first) times mul plus the carry from the bytes
\* below them, by halves: the product bytes, lowest first, and then the
\* carry out at the top.  The low half comes first: its carry goes into the
\* high half.
RECURSIVE MulAdd(_, _, _, _, _)
MulAddHigh(x, lo, hi, mul, l) ==
    SubSeq(l, 1, Len(l) - 1) \o MulAdd(x, lo, hi, mul, l[Len(l)])

MulAdd(x, lo, hi, mul, carry) ==
    IF lo = hi THEN <<(x[lo] * mul + carry) % 256, (x[lo] * mul + carry) \div 256>>
    ELSE MulAddHigh(x, (lo + hi) \div 2 + 1, hi, mul,
                    MulAdd(x, lo, (lo + hi) \div 2, mul, carry))

\* the position after the digits that start at i
DigitsEnd(s, i) ==
    CHOOSE j \in i..(Len(s) + 1) :
        /\ At(s, j) \notin DOMAIN DigitVal
        /\ \A k \in i..(j - 1) : s[k] \in DOMAIN DigitVal

\* what the k-th of the n digits from position i adds to their value
DigitAt(s, i, n, k) == IF k <= n THEN DigitVal[s[i + k - 1]] * (10 ^ (n - k)) ELSE 0

\* the value of the n digits (n <= 6) from position i
Chunk(s, i, n) ==
    (DigitAt(s, i, n, 1) + DigitAt(s, i, n, 2) + DigitAt(s, i, n, 3))
    + (DigitAt(s, i, n, 4) + DigitAt(s, i, n, 5) + DigitAt(s, i, n, 6))

\* the digits s[i..end-1] taken into acc, at most six at a time.  acc holds
\* its bytes from the lowest up and then the carry out of its width, which
\* has to stay 0: the value has to fit the width.
RECURSIVE de_digits(_, _, _, _)
de_digits(s, i, end, acc) ==
    CASE acc[Len(acc)] > 0 -> Fail
      [] acc[Len(acc)] = 0 /\ i >= end ->
            Got([k \in 1..(Len(acc) - 1) |-> acc[Len(acc) - k]], end)
      [] acc[Len(acc)] = 0 /\ i < end /\ end - i < 6 ->
            de_digits(s, end, end,
                      MulAdd(acc, 1, Len(acc) - 1, 10 ^ (end - i), Chunk(s, i, end - i)))
      [] OTHER ->
            de_digits(s, i + 6, end,
                      MulAdd(acc, 1, Len(acc) - 1, 1000000, Chunk(s, i, 6)))

de_number(s, j, end, w) ==
    IF At(s, end) \in {".", "e", "E"} \/ end = j \/ (s[j] = "0" /\ end > j + 1)
    THEN Fail
    ELSE de_digits(s, j, end, Zeros(w + 1))

de_uint_at(s, j, w) == de_number(s, j, DigitsEnd(s, j), w)

\* an unsigned integer of w bytes: no sign, no leading zero, no fraction or
\* exponent, and a value that fits the width
de_uint(s, i, w) == de_uint_at(s, SkipWs(s, i), w)

\* the positions lo..hi in order
Positions(lo, hi) == [k \in 1..(hi - lo + 1) |-> lo + k - 1]

\* the position of the bracket that closes the array whose content starts
\* at j (past the end when there is none)
ArrayEnd(s, j) ==
    CHOOSE e \in j..(Len(s) + 1) :
        /\ At(s, e) \in {"]", "EOF"}
        /\ \A k \in j..(e - 1) : s[k] # "]"

\* the opening bracket, the commas and the closing bracket of the array
\* whose content is s[j..e-1]
Cuts(s, j, e) ==
    <<j - 1>> \o SelectSeq(Positions(j, e - 1), LAMBDA c : s[c] = ",") \o <<e>>

\* the k-th element lies between two cuts and is a u8
de_elem(s, cuts, k) == de_uint(s, cuts[k] + 1, 1)

ElemOk(s, cuts, k) ==
    /\ de_elem(s, cuts, k).ok
    /\ SkipWs(s, de_elem(s, cuts, k).next) = cuts[k + 1]

de_elems(s, n, cuts) ==
    IF cuts[Len(cuts)] > Len(s) \/ Len(cuts) # n + 1
       \/ \E k \in 1..n : ~ElemOk(s, cuts, k)
    THEN Fail
    ELSE Got([k \in 1..n |-> de_elem(s, cuts, k).val[1]], cuts[n + 1] + 1)

de_array(s, n, o) ==
    IF o.ok THEN de_elems(s, n, Cuts(s, o.next, ArrayEnd(s, o.next))) ELSE Fail

\* [u8; n]: exactly n elements between the brackets
de_bytes(s, i, n) == de_array(s, n, Expect(s, i, "["))

HexEscapes ==
    (<<"0", "0", "0", "1">> :> "U+0001") @@ (<<"0", "0", "0", "a">> :> "U+000A") @@
    (<<"0", "0", "0", "A">> :> "U+000A") @@ (<<"0", "0", "e", "9">> :> "U+00E9") @@
    (<<"0", "0", "E", "9">> :> "U+00E9") @@ (<<"0", "0", "2", "2">> :> "\"")

\* A string's content starts at b, after the opening quote.
\* where the backslashes that end just before position p start
RunStart(s, b, p) ==
    CHOOSE k \in b..p :
        /\ \A q \in k..(p - 1) : s[q] = "\\"
        /\ k = b \/ s[k - 1] # "\\"

\* position p follows a backslash that opens an escape
IsEscaped(s, b, p) == (p - RunStart(s, b, p)) % 2 = 1

Closes(s, b, j) == s[j] = "\"" /\ ~IsEscaped(s, b, j)

\* the position of the closing quote (past the end when there is none)
StrEnd(s, b) ==
    CHOOSE e \in b..(Len(s) + 1) :
        /\ e = Len(s) + 1 \/ Closes(s, b, e)
        /\ \A k \in b..(e - 1) : ~Closes(s, b, k)

\* position p is one of the four digits of a \u escape
IsHex(s, b, p) ==
    \E u \in b..(p - 1) : u >= p - 4 /\ s[u] = "u" /\ IsEscaped(s, b, u)

\* the character of the escape whose letter stands at p; e closes the string
de_escape(s, e, p) ==
    CASE s[p] \in {"\"", "\\", "/"} -> [ok |-> TRUE, val |-> <<s[p]>>]
      [] s[p] = "n" -> [ok |-> TRUE, val |-> <<"U+000A">>]
      [] s[p] = "u" /\ p + 4 < e /\ SubSeq(s, p + 1, p + 4) \in DOMAIN HexEscapes ->
            [ok |-> TRUE, val |-> <<HexEscapes[SubSeq(s, p + 1, p + 4)]>>]
      [] OTHER -> [ok |-> FALSE, val |-> <<>>]

\* what position p of the content gives: a character, or nothing for a
\* backslash that opens an escape and for the digits of a \u escape; a raw
\* control character is an error
de_char(s, b, e, p) ==
    CASE IsEscaped(s, b, p) -> de_escape(s, e, p)
      [] ~IsEscaped(s, b, p) /\ (s[p] = "\\" \/ IsHex(s, b, p)) -> [ok |-> TRUE, val |-> <<>>]
      [] OTHER -> [ok |-> s[p] \notin ControlChars, val |-> <<s[p]>>]

\* the content s[b..e-1] of a string and the quote that closes it
de_chars(s, b, e) ==
    IF e > Len(s) \/ \E p \in b..(e - 1) : ~de_char(s, b, e, p).ok THEN Fail
    ELSE IF b = e THEN Got(<<>>, e + 1)
    ELSE Got(Join([k \in 1..(e - b) |-> de_char(s, b, e, b + k - 1).val], <<>>, 1, e - b),
             e + 1)

de_quoted(s, o) == IF o.ok THEN de_chars(s, o.next, StrEnd(s, o.next)) ELSE Fail

de_str(s, i) == de_quoted(s, Expect(s, i, "\""))

\* "name": as the next key of an object (k is the string read)
de_key(s, k, name) == IF k.ok /\ k.val = name THEN Expect(s, k.next, ":") ELSE Fail

\* the parts of a struct as it is written: punctuation, keys and values
Token(t, a) == [t |-> t, a |-> a]

\* a value as the one-element list of values read
Value(r) == IF r.ok THEN Got(<<r.val>>, r.next) ELSE Fail

de_token(s, i, tok) ==
    CASE tok.t = "char" -> Expect(s, i, tok.a)
      [] tok.t = "key" -> de_key(s, de_str(s, i), tok.a)
      [] tok.t = "bytes" -> Value(de_bytes(s, i, tok.a))
      [] tok.t = "uint" -> Value(de_uint(s, i, tok.a))
      [] tok.t = "str" -> Value(de_str(s, i))

\* the tokens toks[lo..hi] one after the other from position i, by halves:
\* the values read, in order
RECURSIVE de_seq(_, _, _, _, _)
de_seq_join(l, h) == IF h.ok THEN Got(l.val \o h.val, h.next) ELSE Fail

de_seq_rest(s, toks, lo, hi, l) ==
    IF l.ok THEN de_seq_join(l, de_seq(s, l.next, toks, lo, hi)) ELSE Fail

de_seq(s, i, toks, lo, hi) ==
    IF lo = hi THEN de_token(s, i, toks[lo])
    ELSE de_seq_rest(s, toks, (lo + hi) \div 2 + 1, hi,
                     de_seq(s, i, toks, lo, (lo + hi) \div 2))

\* the struct: its five fields in their declared order
BlockTokens ==
    <<Token("char", "{"),
      Token("key", N_prev_hash), Token("bytes", HASH_LEN), Token("char", ","),
      Token("key", N_index), Token("uint", U32_LEN), Token("char", ","),
      Token("key", N_timestamp), Token("uint", U128_LEN), Token("char", ","),
      Token("key", N_data), Token("str", 0), Token("char", ","),
      Token("key", N_hash), Token("bytes", HASH_LEN),
      Token("char", "}")>>

AsBlock(r) ==
    IF r.ok
    THEN Got([prev_hash |-> r.val[1], index |-> r.val[2], timestamp |-> r.val[3],
              data |-> r.val[4], hash |-> r.val[5]], r.next)
    ELSE Fail

de_block(s, i) == AsBlock(de_seq(s, i, BlockTokens, 1, Len(BlockTokens)))

\* the blocks of a Vec<Block> after the opening bracket
RECURSIVE de_blocks(_, _, _)
de_next_block(s, acc, b) ==
    IF b.ok THEN de_blocks(s, b.next, Append(acc, b.val)) ELSE Fail

de_blocks(s, i, acc) ==
    IF Expect(s, i, "]").ok THEN Got(acc, Expect(s, i, "]").next)
    ELSE IF Len(acc) = 0 THEN de_next_block(s, acc, de_block(s, i))
    ELSE IF Expect(s, i, ",").ok
    THEN de_next_block(s, acc, de_block(s, Expect(s, i, ",").next))
    ELSE Fail

de_vec(s, i) ==
    IF Expect(s, i, "[").ok THEN de_blocks(s, Expect(s, i, "[").next, <<>>) ELSE Fail

AsResponseLatest(b) == IF b.ok THEN Got(ResponseLatest(b.val), b.next) ELSE Fail

AsResponseAll(l) == IF l.ok THEN Got(ResponseAll(l.val), l.next) ELSE Fail

\* null, the content of a unit variant
de_null(s, j, v) ==
    IF j + 3 <= Len(s) /\ SubSeq(s, j, j + 3) = N_null THEN Got(v, j + 4) ELSE Fail

\* the content of the variant called name, from position i
de_variant(s, i, name) ==
    CASE name = N_ResponseLatest -> AsResponseLatest(de_block(s, i))
      [] name = N_ResponseAll -> AsResponseAll(de_vec(s, i))
      [] name = N_QueryLatest -> de_null(s, SkipWs(s, i), QueryLatest)
      [] name = N_QueryAll -> de_null(s, SkipWs(s, i), QueryAll)
      [] OTHER -> Fail

\* a unit variant given as the string n
de_unit(n) ==
    CASE n.ok /\ n.val = N_QueryLatest -> Got(QueryLatest, n.next)
      [] n.ok /\ n.val = N_QueryAll -> Got(QueryAll, n.next)
      [] OTHER -> Fail

\* {"Variant": content}: n is the name read
de_tagged(s, n) ==
    IF n.ok /\ Expect(s, n.next, ":").ok
    THEN CloseWith(s, de_variant(s, Expect(s, n.next, ":").next, n.val), "}")
    ELSE Fail

\* the enum: "Variant" for a unit variant, {"Variant": content} for any
de_message(s, j) ==
    CASE At(s, j) = "\"" -> de_unit(de_str(s, j))
      [] At(s, j) = "{" -> de_tagged(s, de_str(s, j + 1))
      [] OTHER -> Fail

\* the whole text is one value: only whitespace may follow it
de_end(s, m) ==
    IF m.ok /\ SkipWs(s, m.next) = Len(s) + 1
    THEN [ok |-> TRUE, val |-> m.val]
    ELSE [ok |-> FALSE, val |-> None]

\* serde_json::from_str::<ClientMessage>
from_str(s) == de_end(s, de_message(s, SkipWs(s, 1)))

\* serde_json::from_str::<Block>
from_str_block(s) == de_end(s, de_block(s, 1))

\* handle that keeps the reply of process to itself
handle_reply_dropped(o) ==
    IF o.panic THEN o ELSE Returned(None, o.blockchain)

\* .map(|de_out| serde_json::to_string(&de_out).unwrap())
handle_reply(o) ==
    IF o.panic \/ o.ret = None THEN o
    ELSE Returned(Some(to_string(o.ret[1])), o.blockchain)

handle_match(self, de) ==
    IF de.ok THEN handle_reply(process(self, de.val))
    ELSE Returned(None, self.blockchain)

handle(self, ser_in) == handle_match(self, from_str(ser_in))

(***************************************************************************)
(* Inputs offered to the store.                                            *)
(***************************************************************************)
\* what an operator types and the clock reads when a block is generated
NewBlockInputs ==
    {[data |-> <<"x">>, now |-> U128(1)],
     [data |-> <<"y">>, now |-> Ones(U128_LEN)]}

Children(prev) == {generate_block(n.data, prev, n.now) : n \in NewBlockInputs}

\* the blocks generated k steps after genesis
RECURSIVE Level(_)
Level(k) ==
    IF k = 0 THEN {Handler_new.genesis}
    ELSE UNION {Children(prev) : prev \in Level(k - 1)}

GoodBlocks == UNION {Level(k) : k \in 0..(MaxChainLen - 1)}

\* the chains of n blocks grown from genesis
RECURSIVE ChainsOfLen(_)
ChainsOfLen(n) ==
    IF n = 1 THEN {<<Handler_new.genesis>>}
    ELSE UNION {{Append(c, b) : b \in Children(c[Len(c)])} : c \in ChainsOfLen(n - 1)}

GrownChains == UNION {ChainsOfLen(n) : n \in 1..MaxChainLen}

\* blocks a peer can send that are wrong in one way each
BadBlocks ==
    LET g == Handler_new.genesis
        a == generate_block(<<"x">>, g, U128(1))
    IN  { Block_new(DefaultOutput, U32(0), U128(GENESIS_TIMESTAMP), <<"x">>),
          [g EXCEPT !.timestamp = U128(1)],
          [a EXCEPT !.hash = DefaultOutput],
          [a EXCEPT !.data = <<"y">>],
          Block_new(g.hash, U32(2), U128(1), <<"x">>),
          Block_new(g.hash, Ones(U32_LEN), U128(1), <<"x">>),
          Block_new(DefaultOutput, U32(1), U128(1), <<"x">>) }

Blocks == GoodBlocks \cup BadBlocks

SeqsOfLen(S, n) == [1..n -> S]

\* a grown chain with one block replaced, or without its first block
Damaged ==
    UNION {{[c EXCEPT ![i] = b] : i \in 1..Len(c), b \in Blocks} \cup {Tail(c)}
           : c \in GrownChains}

CandidateChains ==
    {<<>>} \cup SeqsOfLen(Blocks, 1) \cup SeqsOfLen(Blocks, 2)
    \cup GrownChains \cup Damaged

Messages ==
    {QueryLatest, QueryAll} \cup {ResponseLatest(b) : b \in Blocks}
    \cup {ResponseAll(c) : c \in CandidateChains}

\* the messages whose encodings are offered to handle
PayloadMessages ==
    {QueryLatest, QueryAll} \cup {ResponseLatest(b) : b \in Blocks}
    \cup {ResponseAll(c) : c \in GrownChains \cup {<<>>}}
    \cup {ResponseAll(<<b>>) : b \in BadBlocks}
    \cup {ResponseAll(<<Handler_new.genesis, b>>) : b \in BadBlocks}

Encoded == [m \in PayloadMessages |-> to_string(m)]

\* texts that are no encoding of a message
MalformedTexts ==
    LET q == to_string(QueryLatest)
        r == to_string(ResponseLatest(Handler_new.genesis))
        e == to_string(ResponseAll(<<>>))
    IN  { <<>>,
          <<"x">>,
          <<"n", "u", "l", "l">>,
          <<"1">>,
          SubSeq(q, 1, Len(q) - 1),
          q \o <<"x">>,
          q \o q,
          <<"\"", "Q", "u", "e", "r", "y", "\"">>,
          r \o <<"}">>,
          SubSeq(r, 1, Len(r) - 1),
          SubSeq(r, 1, Len(r) - 2) \o <<",", "}">>,
          ser_str(N_ResponseLatest),
          <<"{">> \o ser_str(N_ResponseLatest) \o <<":">>
              \o ser_vec(<<Handler_new.genesis>>) \o <<"}">>,
          <<"{">> \o ser_str(N_ResponseAll) \o <<":">>
              \o ser_block(Handler_new.genesis) \o <<"}">>,
          SubSeq(e, 1, Len(e) - 2) \o <<",", "]", "}">>,
          <<"{">> \o ser_str(N_QueryAll) \o <<":", "0", "}">> }

\* encodings with whitespace between the tokens
SpacedTexts ==
    { <<" ">> \o to_string(QueryAll) \o <<"U+000A">>,
      <<"{", " ">> \o ser_str(N_ResponseAll) \o <<" ", ":", " ", "[", " ", "]", " ", "}">>,
      <<"{">> \o ser_str(N_QueryLatest) \o <<":", "n", "u", "l", "l", "}">> }

Payloads == {Encoded[m] : m \in PayloadMessages} \cup MalformedTexts \cup SpacedTexts

(***************************************************************************)
(* The peers (src/src/p2p.rs, run).  Every peer owns one Handler and runs  *)
(* one event loop over two sources: the lines of its stdin and the         *)
(* Floodsub messages of the topic all peers subscribe to.  A published     *)
(* message travels to every other peer and may overtake the messages of    *)
(* other publishers.  stdin stays open (a closed stdin ends run at         *)
(* expect("stdin closed")).                                                *)
(***************************************************************************)
Peers == {"P", "R", "Q"}

\* AtSelect of a loop that polls its sources while its body runs
AtSelect_in_body(p) == loop[p].at \in {"select", "stdin", "message", "response"}

\* the loop of peer p waits in tokio::select!
AtSelect(p) == loop[p].at = "select"

\* the position of a loop that took the event (data, id) at the place at
Taken(p, at, data, id) ==
    [at |-> at, data |-> data, id |-> id,
     pre |-> handler[p].blockchain, response |-> None]

Waiting == [at |-> "select", data |-> <<>>, id |-> 0, pre |-> <<>>, response |-> None]

\* no peer is running
NoPeers ==
    /\ handler = [p \in Peers |-> Handler_new]
    /\ stdin = [p \in Peers |-> <<>>]
    /\ inbox = [p \in Peers |-> {}]
    /\ loop = [p \in Peers |-> [Waiting EXCEPT !.at = "off"]]
    /\ published = <<>>

\* floodsub.publish(topic, data) by p, caused by the message cause (0: by a
\* line): every other peer is sent the message; chains remembers the chain
\* every peer held at that moment
publish(p, data, cause) ==
    /\ published' = Append(published,
            [source |-> p, data |-> data, cause |-> cause,
             chains |-> [q \in Peers |-> handler[q].blockchain]])
    /\ inbox' = [q \in Peers |->
            IF q = p THEN inbox[q] ELSE inbox[q] \cup {Len(published) + 1}]

\* the body of the loop is done: back to select!
Completed(p) == loop' = [loop EXCEPT ![p] = Waiting]

\* line = stdin.next_line() is ready
StdinLine(p) ==
    /\ AtSelect(p)
    /\ stdin[p] # <<>>
    /\ loop' = [loop EXCEPT ![p] = Taken(p, "stdin", Head(stdin[p]), 0)]
    /\ stdin' = [stdin EXCEPT ![p] = Tail(stdin[p])]
    /\ UNCHANGED <<handler, inbox, published>>
    /\ UNCHANGED caller

\* floodsub.publish(floodsub_topic.clone(), line.as_bytes())
PublishLine(p) ==
    /\ loop[p].at = "stdin"
    /\ publish(p, as_bytes(loop[p].data), 0)
    /\ Completed(p)
    /\ UNCHANGED <<handler, stdin>>
    /\ UNCHANGED caller

\* event = swarm.select_next_some() is a Floodsub message
FloodsubMessage(p) ==
    /\ AtSelect(p)
    /\ \E id \in inbox[p] :
          /\ loop' = [loop EXCEPT ![p] = Taken(p, "message", published[id].data, id)]
          /\ inbox' = [inbox EXCEPT ![p] = inbox[p] \ {id}]
    /\ UNCHANGED <<handler, stdin, published>>
    /\ UNCHANGED caller

\* what the operators type
Lines ==
    { to_string(QueryAll),
      to_string(QueryLatest),
      <<"x">>,
      to_string(ResponseLatest(generate_block(<<"x">>, Handler_new.genesis, U128(1)))),
      to_string(ResponseAll(<<>>)) }

Queries == {to_string(QueryAll), to_string(QueryLatest)}

\* the chains the peers have come to hold: genesis alone, and genesis with
\* either block generated from it
PeerChains ==
    {<<Handler_new.genesis>>}
    \cup {<<Handler_new.genesis, b>> : b \in Children(Handler_new.genesis)}

\* the payloads that travel among such peers: the typed lines, and the
\* replies a store with one of these chains gives
Travelling ==
    {as_bytes(l) : l \in Lines}
    \cup {as_bytes(to_string(ResponseAll(c))) : c \in PeerChains}
    \cup {as_bytes(to_string(ResponseLatest(c[Len(c)]))) : c \in PeerChains}

\* handle(&String::from_utf8_lossy(&data)) of these stores on these
\* payloads, worked out once (@@ settles the values of a function)
Handling ==
    [c \in PeerChains, d \in Travelling |->
        handle([Handler_new EXCEPT !.blockchain = c], from_utf8_lossy(d))] @@ <<>>

\* from_str(&String::from_utf8_lossy(&data)) of these payloads, worked out once
Reading == [d \in Travelling |-> from_str(from_utf8_lossy(d))] @@ <<>>

\* the message that the payload data holds; looked up where it is worked out
from_lossy(data) ==
    IF data \in DOMAIN Reading THEN Reading[data] ELSE from_str(from_utf8_lossy(data))

\* handle on the text of the payload data; looked up where it is worked out
handle_lossy(self, data) ==
    IF self.genesis = Handler_new.genesis /\ <<self.blockchain, data>> \in DOMAIN Handling
    THEN Handling[self.blockchain, data]
    ELSE handle(self, from_utf8_lossy(data))

\* the outcome o of handler.handle(..) at peer p; a panic ends run
Handled(p, o) ==
    /\ handler' = [handler EXCEPT ![p].blockchain = o.blockchain]
    /\ loop' = [loop EXCEPT ![p].at = IF o.panic THEN "panicked" ELSE "response",
                            ![p].response = o.ret]

\* handler.handle(&String::from_utf8_lossy(&message.data))
HandleMessage(p) ==
    /\ loop[p].at = "message"
    /\ Handled(p, handle_lossy(handler[p], loop[p].data))
    /\ UNCHANGED <<stdin, inbox, published>>
    /\ UNCHANGED caller

\* if let Some(response) = .. { floodsub.publish(floodsub_topic.clone(), response) }
PublishResponse(p) ==
    /\ loop[p].at = "response"
    /\ IF loop[p].response # None
       THEN publish(p, as_bytes(loop[p].response[1]), loop[p].id)
       ELSE UNCHANGED <<inbox, published>>
    /\ Completed(p)
    /\ UNCHANGED <<handler, stdin>>
    /\ UNCHANGED caller

\* one step of the loop of peer p
Step(p) ==
    \/ StdinLine(p)
    \/ PublishLine(p)
    \/ FloodsubMessage(p)
    \/ HandleMessage(p)
    \/ PublishResponse(p)

\* no store is called from outside the loops
NoCaller ==
    /\ blockchain = Handler_new.blockchain
    /\ genesis = Handler_new.genesis
    /\ pc = "off"
    /\ op = "none"
    /\ arg = None
    /\ ret = None
    /\ pre = Handler_new.blockchain

\* the peers start: each with the store s[p] and the typed lines l[p]
Started(s, l) ==
    /\ handler = s
    /\ stdin = l
    /\ inbox = [p \in Peers |-> {}]
    /\ loop = [p \in Peers |-> Waiting]
    /\ published = <<>>

(***************************************************************************)
(* Freshly started peers, their loops running step by step in any order:   *)
(* P types a line and then a word.                                         *)
(***************************************************************************)
InitLoop ==
    /\ NoCaller
    /\ \E l \in Lines :
          Started([p \in Peers |-> Handler_new],
                  [p \in Peers |-> IF p = "P" THEN <<l, <<"x">>>> ELSE <<>>])

NextLoop == \E p \in Peers : Step(p)

SpecLoop == InitLoop /\ [][NextLoop]_vars

(***************************************************************************)
(* Peers whose stores have grown apart: every peer holds a chain of its    *)
(* own when P types a query.  The stores are disjoint and the body of a    *)
(* loop reads nothing another peer writes, so the bodies are taken one at  *)
(* a time.                                                                 *)
(***************************************************************************)
InitNet ==
    /\ NoCaller
    /\ \E s \in [Peers -> PeerChains], l \in Queries :
          Started([p \in Peers |-> [Handler_new EXCEPT !.blockchain = s[p]]],
                  [p \in Peers |-> IF p = "P" THEN <<l>> ELSE <<>>])

\* every other peer waits in select! (or has ended)
Alone(p) == \A q \in Peers \ {p} : loop[q].at \in {"select", "panicked"}

NextNet ==
    \/ \E p \in Peers : Alone(p) /\ StdinLine(p)
    \/ \E p \in Peers : Alone(p) /\ PublishLine(p)
    \/ \E p \in Peers : Alone(p) /\ FloodsubMessage(p)
    \/ \E p \in Peers : Alone(p) /\ HandleMessage(p)
    \/ \E p \in Peers : Alone(p) /\ PublishResponse(p)

SpecNet == InitNet /\ [][NextNet]_vars

\* the runtimes keep polling the loops: while some loop can take a step, a
\* step is taken
SpecNetFair == SpecNet /\ WF_vars(NextNet)

(***************************************************************************)
(* The store as a state machine: a caller makes one call at a time and     *)
(* takes its return value before the next.                                 *)
(***************************************************************************)
Store == [blockchain |-> blockchain, genesis |-> genesis]

PreStore == [blockchain |-> pre, genesis |-> genesis]

Init ==
    /\ blockchain = Handler_new.blockchain
    /\ genesis = Handler_new.genesis
    /\ pc = "idle"
    /\ op = "new"
    /\ arg = None
    /\ ret = None
    /\ pre = Handler_new.blockchain
    /\ NoPeers

\* the call name(a) with outcome o
Call(name, a, o) ==
    /\ pc' = IF o.panic THEN "panicked" ELSE "done"
    /\ op' = name
    /\ arg' = a
    /\ ret' = o.ret
    /\ pre' = blockchain
    /\ blockchain' = o.blockchain
    /\ UNCHANGED genesis
    /\ UNCHANGED network

PushBlock ==
    /\ pc = "idle"
    /\ \E b \in Blocks : Call("push_block", b, push_block(Store, b))

ReplaceChain ==
    /\ pc = "idle"
    /\ \E c \in CandidateChains : Call("replace_chain", c, replace_chain(Store, c))

Process ==
    /\ pc = "idle"
    /\ \E m \in Messages : Call("process", m, process(Store, m))

Handle ==
    /\ pc = "idle"
    /\ \E t \in Payloads : Call("handle", t, handle(Store, t))

\* the caller has taken the return value
Return ==
    /\ pc = "done"
    /\ pc' = "idle"
    /\ op' = "none"
    /\ arg' = None
    /\ ret' = None
    /\ pre' = blockchain
    /\ UNCHANGED <<blockchain, genesis>>
    /\ UNCHANGED network

Next == PushBlock \/ ReplaceChain \/ Process \/ Handle \/ Return

Spec == Init /\ [][Next]_vars

(***************************************************************************)
(* validate_chain on its own: the chain is drawn first, then validated.    *)
(***************************************************************************)
CoreBlocks == Level(0) \cup Level(1) \cup BadBlocks

ValidateInputs == CandidateChains \cup SeqsOfLen(CoreBlocks, MaxChainLen)

InitValidate ==
    /\ blockchain = Handler_new.blockchain
    /\ genesis = Handler_new.genesis
    /\ pc = "idle"
    /\ op = "validate_chain"
    /\ arg \in ValidateInputs
    /\ ret = None
    /\ pre = Handler_new.blockchain
    /\ NoPeers

validate_chain_ret(v) == IF v.panic THEN None ELSE v.val

ValidateChain ==
    /\ pc = "idle"
    /\ op = "validate_chain"
    /\ pc' = IF validate_chain(genesis, arg).panic THEN "panicked" ELSE "done"
    /\ ret' = validate_chain_ret(validate_chain(genesis, arg))
    /\ UNCHANGED <<blockchain, genesis, op, arg, pre>>
    /\ UNCHANGED network

NextValidate == ValidateChain

SpecValidate == InitValidate /\ [][NextValidate]_vars

(***************************************************************************)
(* The encoding on its own: a Block or a ClientMessage is drawn, written   *)
(* as text, and the text is read back.                                     *)
(***************************************************************************)
\* a block whose fields take values from all over their ranges
ExoticBlock ==
    [prev_hash |-> [i \in 1..HASH_LEN |-> (i * 37) % 256],
     index |-> Ones(U32_LEN),
     timestamp |-> Ones(U128_LEN),
     data |-> <<"x", "\"", "\\", "/", "U+000A", "U+0001", "U+00E9", "U+1F600", " ">>,
     hash |-> Ones(HASH_LEN)]

CodecBlocks ==
    Blocks \cup
    { ExoticBlock,
      [ExoticBlock EXCEPT !.data = <<>>],
      [ExoticBlock EXCEPT !.data = <<"\\", "\\", "\"">>],
      \* 2^64 - 1 and 2^64
      [ExoticBlock EXCEPT !.timestamp = Zeros(8) \o Ones(8)],
      [ExoticBlock EXCEPT !.timestamp = Zeros(7) \o <<1>> \o Zeros(8)],
      [ExoticBlock EXCEPT !.index = U32(10), !.timestamp = U128(1000)],
      [ExoticBlock EXCEPT !.hash = [i \in 1..HASH_LEN |-> 256 - i]] }

CodecMessages ==
    {QueryLatest, QueryAll} \cup {ResponseLatest(b) : b \in CodecBlocks}
    \cup {ResponseAll(c) : c \in GrownChains \cup {<<>>}}
    \cup {ResponseAll(<<b, ExoticBlock>>) : b \in CodecBlocks}

InitCodec ==
    /\ blockchain = Handler_new.blockchain
    /\ genesis = Handler_new.genesis
    /\ pc = "value"
    /\ \/ op = "Block" /\ arg \in CodecBlocks
       \/ op = "ClientMessage" /\ arg \in CodecMessages
    /\ ret = None
    /\ pre = Handler_new.blockchain
    /\ NoPeers

Encode ==
    /\ pc = "value"
    /\ pc' = "encoded"
    /\ ret' = IF op = "Block" THEN ser_block(arg) ELSE to_string(arg)
    /\ UNCHANGED <<blockchain, genesis, op, arg, pre>>
    /\ UNCHANGED network

Decode ==
    /\ pc = "encoded"
    /\ pc' = "decoded"
    /\ ret' = IF op = "Block" THEN from_str_block(ret) ELSE from_str(ret)
    /\ UNCHANGED <<blockchain, genesis, op, arg, pre>>
    /\ UNCHANGED network

NextCodec == Encode \/ Decode

SpecCodec == InitCodec /\ [][NextCodec]_vars

(***************************************************************************)
(* Properties.                                                             *)
(***************************************************************************)
\* a call has been made and not yet taken by the caller
Called(name) == pc \in {"done", "panicked"} /\ op = name

\* y = x + 1 as numbers
IsSucc(x, y) == x # Ones(Len(x)) /\ y = WrappingInc(x)

Linked(prev, cur) ==
    /\ IsSucc(prev.index, cur.index)
    /\ cur.prev_hash = prev.hash
    /\ cur.hash = calculate_hash(cur)

SameFields(a, b) ==
    /\ a.prev_hash = b.prev_hash
    /\ a.index = b.index
    /\ a.timestamp = b.timestamp
    /\ a.data = b.data
    /\ a.hash = b.hash

AllLinked(chain) == \A i \in 2..Len(chain) : Linked(chain[i - 1], chain[i])

\* C1: the store's chain is never empty, starts with the genesis block and
\* every block continues the one before it (index, prev_hash, hash).
C1_ChainInvariant ==
    /\ Len(blockchain) > 0
    /\ blockchain[1] = genesis
    /\ SameFields(blockchain[1], Handler_new.genesis)
    /\ AllLinked(blockchain)
    /\ ~latest_block(Store).panic

C1_Witness ==
    /\ Called("push_block")
    /\ ret = TRUE
    /\ Len(blockchain) = 3
    /\ blockchain[2].data = <<"y">>

\* C2: replace_chain(C) returns true iff validate_chain(genesis, C) holds and
\* C is strictly longer than the local chain (a tie is rejected); accepted,
\* the local chain is C; rejected, it is what it was.
C2_ReplaceChain ==
    Called("replace_chain") =>
        LET valid == Len(arg) > 0 /\ validate_chain(genesis, arg).val
            accept == valid /\ Len(arg) > Len(pre)
        IN  /\ (pc = "done" /\ ret = TRUE) <=> accept
            /\ Len(arg) = Len(pre) => ~(pc = "done" /\ ret = TRUE)
            /\ accept => blockchain = arg
            /\ ~accept => blockchain = pre

C2_Witness ==
    /\ Called("replace_chain")
    /\ pc = "done"
    /\ ret = TRUE
    /\ Len(pre) = 2
    /\ blockchain[2] # pre[2]

\* C3: push_block(b) returns true iff b.validate_block(latest_block()); on
\* success the chain is the old chain with b appended, on failure the old
\* chain.
C3_PushBlock ==
    Called("push_block") =>
        /\ pc = "done"
        /\ ret = validate_block(arg, pre[Len(pre)])
        /\ ret = TRUE =>
            /\ Len(blockchain) = Len(pre) + 1
            /\ SubSeq(blockchain, 1, Len(pre)) = pre
            /\ latest_block(Store).val = arg
        /\ ret = FALSE => blockchain = pre

C3_Witness ==
    /\ Called("push_block")
    /\ ret = TRUE
    /\ Len(pre) = 2
    /\ blockchain = Append(pre, arg)

\* C4: for a non-empty chain C, validate_chain(genesis, C) is true iff C[0]
\* has every field of genesis and every later block continues the one
\* before it; the store is left as it was.
C4_ValidateChain ==
    (Called("validate_chain") /\ Len(arg) > 0) =>
        /\ pc = "done"
        /\ ret <=> (SameFields(arg[1], Handler_new.genesis) /\ AllLinked(arg))
        /\ blockchain = pre
        /\ genesis = Handler_new.genesis

C4_Witness ==
    /\ Called("validate_chain")
    /\ pc = "done"
    /\ Len(arg) = 3
    /\ ret = TRUE

\* C5: replace_chain([]) returns false and process(ResponseAll([])) returns
\* no reply, both normally and leaving the store unchanged.
C5_EmptyChainRejected ==
    /\ (Called("replace_chain") /\ arg = <<>>) =>
            (pc = "done" /\ ret = FALSE /\ blockchain = pre)
    /\ (Called("process") /\ arg = ResponseAll(<<>>)) =>
            (pc = "done" /\ ret = None /\ blockchain = pre)

\* C6: a query is answered with the last block (QueryLatest) or the whole
\* chain (QueryAll) and changes nothing, so asking again in the resulting
\* state gives the same reply and the same state.
C6_Queries ==
    (Called("process") /\ arg.type \in {"QueryLatest", "QueryAll"}) =>
        /\ pc = "done"
        /\ blockchain = pre
        /\ genesis = Handler_new.genesis
        /\ arg.type = "QueryLatest" => ret = Some(ResponseLatest(pre[Len(pre)]))
        /\ arg.type = "QueryAll" => ret = Some(ResponseAll(pre))
        /\ process(Store, arg) = Returned(ret, blockchain)

C6_Witness ==
    /\ Called("process")
    /\ arg = QueryLatest
    /\ Len(pre) = 3
    /\ ret = Some(ResponseLatest(blockchain[3]))

\* what the update a Response message asks for does to the store before it
UpdateOf(msg) ==
    IF msg.type = "ResponseLatest" THEN push_block(PreStore, msg.block)
    ELSE replace_chain(PreStore, msg.chain)

\* C7: a Response message is applied with push_block (ResponseLatest) or
\* replace_chain (ResponseAll) and never answered, accepted or not; a
\* rejected update leaves the store as it was.
C7_Responses ==
    (Called("process") /\ arg.type \in {"ResponseLatest", "ResponseAll"}) =>
        /\ ret = None
        /\ blockchain = UpdateOf(arg).blockchain
        /\ (pc = "panicked") <=> UpdateOf(arg).panic
        /\ (UpdateOf(arg).panic \/ UpdateOf(arg).ret = FALSE) => blockchain = pre

C7_Witness ==
    /\ Called("process")
    /\ arg.type = "ResponseAll"
    /\ Len(pre) = 2
    /\ blockchain = arg.chain
    /\ blockchain # pre
    /\ ret = None

\* handle did what process does with the message msg
HandledAs(msg) ==
    /\ (pc = "panicked") <=> process(PreStore, msg).panic
    /\ blockchain = process(PreStore, msg).blockchain
    /\ ret = IF process(PreStore, msg).panic \/ process(PreStore, msg).ret = None
             THEN None
             ELSE Some(to_string(process(PreStore, msg).ret[1]))

\* C8: handle(text) returns nothing and changes nothing when text is no
\* message; when text is the encoding of m it returns the encoded reply of
\* process(m), if any, and changes the state as process(m) does.
C8_Handle ==
    Called("handle") =>
        /\ (arg \in MalformedTexts \/ ~from_str(arg).ok) =>
                (pc = "done" /\ ret = None /\ blockchain = pre)
        /\ \A m \in PayloadMessages : arg = Encoded[m] => HandledAs(m)
        /\ from_str(arg).ok => HandledAs(from_str(arg).val)

C8_Witness ==
    /\ Called("handle")
    /\ arg \in MalformedTexts
    /\ Len(arg) > 0
    /\ Len(pre) = 3
    /\ blockchain = pre
    /\ ret = None

\* C10: a Block or a ClientMessage written as text and read back is the
\* value that was written.
C10_RoundTrip == pc = "decoded" => ret = [ok |-> TRUE, val |-> arg]

C10_Witness ==
    /\ pc = "decoded"
    /\ op = "ClientMessage"
    /\ arg = ResponseLatest(ExoticBlock)
    /\ ret.ok
    /\ ret.val.block.timestamp = Ones(U128_LEN)

\* the non-genesis blocks of a chain
NonGenesis(chain) == {chain[i] : i \in 2..Len(chain)}

\* a store holding the chain c
StoreOf(c) == [blockchain |-> c, genesis |-> genesis]

\* C13: whether replace_chain accepts a candidate depends on the candidate and
\* on the length of the local chain only: every local chain of the same
\* length gives the same answer, and a valid strictly longer candidate is
\* accepted whatever it shares with the local chain and whatever the order of
\* its timestamps, after which no block of the old chain that the candidate
\* does not hold is left.
C13_ForkChoice ==
    Called("replace_chain") =>
        /\ \A c \in GrownChains : Len(c) = Len(pre) =>
                /\ replace_chain(StoreOf(c), arg).panic = (pc = "panicked")
                /\ replace_chain(StoreOf(c), arg).ret = ret
        /\ (Len(arg) > Len(pre) /\ validate_chain(genesis, arg).val) =>
                /\ pc = "done" /\ ret = TRUE
                /\ blockchain = arg
                /\ NonGenesis(blockchain) \cap (NonGenesis(pre) \ NonGenesis(arg)) = {}

C13_Witness ==
    /\ Called("replace_chain")
    /\ pc = "done"
    /\ ret = TRUE
    /\ Len(pre) = 2
    /\ Len(arg) = 3
    /\ NonGenesis(arg) \cap NonGenesis(pre) = {}
    /\ arg[2].timestamp = Ones(U128_LEN)
    /\ arg[3].timestamp = U128(1)
    /\ blockchain = arg

\* C14: handle returns normally, with a reply or with nothing, for every
\* payload in every reachable state.
C14_HandleCompletes ==
    Called("handle") => (pc = "done" /\ Len(ret) <= 1)

\* C15: no call makes the chain shorter: an accepted push_block adds one
\* block, an accepted replace_chain at least one, and every other call
\* (rejection, query, decode failure, panic) leaves the length as it was.
C15_LengthNeverDecreases ==
    [][LET d == Len(blockchain') - Len(blockchain)
       IN  /\ d >= 0
           /\ op' = "push_block" => d = (IF pc' = "done" /\ ret' = TRUE THEN 1 ELSE 0)
           /\ op' = "replace_chain" =>
                  (IF pc' = "done" /\ ret' = TRUE THEN d >= 1 ELSE d = 0)
           /\ (op' = "process" /\ arg'.type \in {"QueryLatest", "QueryAll"}) => d = 0
           /\ (op' = "process" /\ arg'.type = "ResponseLatest") => d \in {0, 1}
           /\ (op' = "handle" /\ ~from_str(arg').ok) => d = 0
           /\ pc' = "panicked" => d = 0
           /\ d = 0 => blockchain' = blockchain]_vars

C15_Witness ==
    /\ Called("replace_chain")
    /\ pc = "done"
    /\ ret = TRUE
    /\ Len(pre) = 1
    /\ Len(blockchain) = 3

\* C16: the block at position i of the chain (counted from 0) has index i,
\* so the last block has index len - 1 and push_block accepts only a block
\* whose index is the length of the chain.
C16_IndexIsPosition ==
    /\ \A i \in 1..Len(blockchain) : blockchain[i].index = U32(i - 1)
    /\ Len(blockchain) > 0
    /\ latest_block(Store).val.index = U32(Len(blockchain) - 1)
    /\ (Called("push_block") /\ ret = TRUE) => arg.index = U32(Len(pre))

C16_Witness ==
    /\ Called("push_block")
    /\ ret = TRUE
    /\ arg.index = U32(2)
    /\ blockchain[3] = arg
    /\ arg.data = <<"x">>

(***************************************************************************)
(* The event loops of the peers.                                           *)
(***************************************************************************)
\* the last block of a chain
Tip(chain) == chain[Len(chain)]

\* peer p ends the body of its loop for a line of stdin
LineDone(p) == loop[p].at = "stdin" /\ loop'[p].at = "select"

\* C11: when the loop of a peer has taken a line of its stdin, the body of
\* the loop appends to the chain of the peer a new block whose data is the
\* line, and what it publishes is the ResponseLatest message of that new tip.
C11_LineBecomesBlock ==
    [][\A p \in Peers : LineDone(p) =>
          /\ Len(handler'[p].blockchain) = Len(handler[p].blockchain) + 1
          /\ Tip(handler'[p].blockchain).data = loop[p].data
          /\ Len(published') = Len(published) + 1
          /\ published'[Len(published')].data =
                as_bytes(to_string(ResponseLatest(Tip(handler'[p].blockchain))))]_vars

\* the store of peer p as it was when the loop took the event at hand
StoreTaken(p) == [Handler_new EXCEPT !.blockchain = loop[p].pre]

\* the loop of peer p takes an event from one of its two sources
Takes(p) == stdin'[p] # stdin[p] \/ inbox[p] \ inbox'[p] # {}

\* C12: the loop of a peer takes an event only when the body for the event
\* before it has run to its end, and the store of the peer is changed only by
\* the one handle call of the event at hand: that call finds the chain as it
\* was when the event was taken, and what it leaves stays as it is until the
\* body has ended.
C12_OneEventAtATime ==
    [][\A p \in Peers :
          /\ Takes(p) => (loop[p].at = "select" /\ loop'[p].at \in {"stdin", "message"})
          /\ handler'[p] # handler[p] => loop[p].at = "message"
          /\ loop[p].at \in {"stdin", "message"} => handler[p].blockchain = loop[p].pre
          /\ loop'[p].at = "response" =>
                handler'[p].blockchain =
                    handle_lossy(StoreTaken(p), loop'[p].data).blockchain
          /\ (loop[p].at = "response" /\ loop'[p].at = "select") =>
                handler[p].blockchain =
                    handle_lossy(StoreTaken(p), loop[p].data).blockchain]_vars

\* a peer in the body for a block it has taken in, with a message waiting
C12_Witness ==
    \E p \in Peers :
        /\ loop[p].at = "response"
        /\ inbox[p] # {}
        /\ Len(loop[p].pre) = 1
        /\ Len(handler[p].blockchain) = 2

\* the places in published of the replies (the payloads handle returned)
Replies == {k \in 1..Len(published) : published[k].cause # 0}

\* the message published at place k, if its payload holds one
Published(k) == from_lossy(published[k].data)

IsQuery(m) == m.ok /\ m.val.type \in {"QueryLatest", "QueryAll"}

IsResponse(m) == m.ok /\ m.val.type \in {"ResponseLatest", "ResponseAll"}

\* nothing is on its way and every loop waits
Quiet ==
    \A p \in Peers : stdin[p] = <<>> /\ inbox[p] = {} /\ loop[p].at = "select"

\* a peer publishes at most one reply to a payload, every reply is a
\* ResponseLatest or a ResponseAll, and every reply answers a query that was
\* typed: none answers a reply.  With the one query that P types there are
\* at most n - 1 replies among the n peers and nothing else is published.
RepliesBounded ==
    /\ \A j, k \in Replies :
          (published[j].source = published[k].source
           /\ published[j].cause = published[k].cause) => j = k
    /\ \A k \in Replies :
          /\ IsResponse(Published(k))
          /\ published[k].cause < k
          /\ published[published[k].cause].cause = 0
          /\ IsQuery(Published(published[k].cause))
    /\ Cardinality(Replies) <= Cardinality(Peers) - 1
    /\ \A k \in 1..Len(published) : k = 1 \/ published[k].cause = 1

\* C17: the exchange that one published query starts comes to rest: each
\* peer replies at most once to a payload, a reply is a ResponseLatest or a
\* ResponseAll, no reply is answered, so that there are at most n - 1 replies
\* among n peers, and in the end nothing is on its way and every loop waits.
C17_Quiesces == []RepliesBounded /\ <>[]Quiet

\* every other peer has replied to the query and all is at rest
C17_Witness ==
    /\ Quiet
    /\ Cardinality(Replies) = Cardinality(Peers) - 1
    /\ \A k \in Replies : published[k].source # "P" /\ published[k].cause = 1

\* peer p has handled, and not yet left, the reply at place k of published
\* to a QueryAll that p itself published
CaughtUp(p, k) ==
    /\ loop[p].at = "response"
    /\ loop[p].id = k
    /\ k \in Replies
    /\ published[published[k].cause].source = p
    /\ IsQuery(Published(published[k].cause))
    /\ Published(published[k].cause).val = QueryAll

\* the chain that the publisher of the message at place k held when it
\* published it
ChainSent(k) == published[k].chains[published[k].source]

\* C18: when P has published QueryAll and has handled the reply of a
\* responder R, the reply is the ResponseAll of the chain R held when it
\* replied, the chain of P is at least as long as that chain, and if that
\* chain is strictly longer than the chain P held when it took the reply,
\* the chain of P is that chain.
C18_CatchUp ==
    \A p \in Peers : \A k \in 1..Len(published) : CaughtUp(p, k) =>
        /\ Published(k).ok
        /\ Published(k).val = ResponseAll(ChainSent(k))
        /\ Len(handler[p].blockchain) >= Len(ChainSent(k))
        /\ Len(ChainSent(k)) > Len(loop[p].pre) => handler[p].blockchain = ChainSent(k)

\* P has taken over the longer chain of a responder
C18_Witness ==
    \E k \in 1..Len(published) :
        /\ CaughtUp("P", k)
        /\ Len(loop["P"].pre) = 1
        /\ Len(ChainSent(k)) = 2
        /\ handler["P"].blockchain = ChainSent(k)

\* C18 as stated: when P has published QueryAll and has handled the reply of
\* a responder R, the chain of P is at least as long as the chain R held when
\* it replied, and if at the moment R replied that chain was strictly longer
\* than the chain P held then, the chain of P is that chain.
C18_CatchUpSinceReply ==
    \A p \in Peers : \A k \in 1..Len(published) : CaughtUp(p, k) =>
        /\ Len(handler[p].blockchain) >= Len(ChainSent(k))
        /\ Len(ChainSent(k)) > Len(published[k].chains[p]) =>
                handler[p].blockchain = ChainSent(k)

\* peer p has handled, and not yet left, the reply at place k of published,
\* whose publisher held a chain as long as the one p held, and another one
Tied(p, k) ==
    /\ loop[p].at = "response"
    /\ loop[p].id = k
    /\ k \in Replies
    /\ Len(ChainSent(k)) = Len(loop[p].pre)
    /\ ChainSent(k) # loop[p].pre

\* C19: a peer that handles the reply of a peer holding another valid chain
\* of the same length keeps its chain and answers nothing, be the reply the
\* ResponseAll of that chain (a tie) or the ResponseLatest of its tip (whose
\* index is the index of the own tip, not the one after it).
C19_TiesStay ==
    \A p \in Peers : \A k \in 1..Len(published) : Tied(p, k) =>
        /\ validate_chain(Handler_new.genesis, ChainSent(k)).val
        /\ validate_chain(Handler_new.genesis, loop[p].pre).val
        /\ IsResponse(Published(k))
        /\ Published(k).val \in {ResponseAll(ChainSent(k)), ResponseLatest(Tip(ChainSent(k)))}
        /\ Tip(ChainSent(k)).index = Tip(loop[p].pre).index
        /\ handler[p].blockchain = loop[p].pre
        /\ loop[p].response = None

\* P and R hold the two blocks generated from genesis, and P has turned
\* down the tip that R sent
C19_Witness ==
    \E k \in 1..Len(published) :
        /\ Tied("P", k)
        /\ published[k].source = "R"
        /\ Published(k).val = ResponseLatest(Tip(ChainSent(k)))
        /\ Len(handler["P"].blockchain) = 2
        /\ handler["R"].blockchain = ChainSent(k)
        /\ handler["P"].blockchain # handler["R"].blockchain

====
